---- MODULE Spec2Model ----
(***************************************************************************)
(* The on-screen touch joystick of virtual_joyistick_asets.h as a state    *)
(* machine: the VirtualJoystick struct, the event that the owner's loop    *)
(* polled last, and one action per kind of event or owner operation.       *)
(*                                                                         *)
(* Numbers.  A C float is its IEEE-754 binary32 bit pattern read as sign   *)
(* and magnitude: the integer whose absolute value is the 31 bits of       *)
(* exponent and fraction and whose sign is the sign bit (1.0f is           *)
(* 1065353216, -1.0f is -1065353216, both zeros are 0).  Floats compare as *)
(* these integers do.  Every float operation of the code is one operator   *)
(* below that returns the correctly rounded result (to nearest, ties to    *)
(* even; one rounding an operation, FLT_EVAL_METHOD 0, no fused            *)
(* multiply-add), computed with integers below 2^31.  The quotient of      *)
(* zero by zero is NaN; subnormals and infinities do not occur on the      *)
(* inputs explored.  An int is an integer.  An SDL_FingerID (Sint64) is a  *)
(* pair of 32-bit words.                                                   *)
(*                                                                         *)
(* Resources.  heap is the memory the joystick owns: the malloc'd struct,  *)
(* its two textures, the owner's pointer to the struct, and what has been  *)
(* released how often.  quit is main's flag of that name.                  *)
(***************************************************************************)
EXTENDS Integers, FiniteSets, Sequences, TLC

VARIABLES joystick, e, heap, moves, quit

vars == <<joystick, e, heap, moves, quit>>

(***************************************************************************)
(* Bounds of the model and the inputs it draws from.                       *)
(***************************************************************************)

\* Finger identifiers 0..MaxFinger are offered next to the special ones.
MaxFinger == 0

\* The owner calls VirtualJoystick_Destroy at most this often.
MaxDestroyCalls == 2

\* A FOLLOWING joystick gets touch-move events until its base has followed
\* the finger this often since the touch-down.
MaxMoves == 1

\* The window size <<width, height>> main asks for, and the sizes a resize
\* can bring.
InitialWindow == <<800, 600>>

WindowSizes == {<<800, 600>>, <<1024, 768>>}

\* The arguments x, y, width, height, window_width, window_height of
\* VirtualJoystick_Create: main's and the README's call, for the left third
\* of the window, and a call for the area (0,0,200,600).
MainCall == <<0, 0, InitialWindow[1] \div 3, InitialWindow[2],
              InitialWindow[1], InitialWindow[2]>>

ScenarioCall == <<0, 0, 200, 600, InitialWindow[1], InitialWindow[2]>>

\* The touches of the events, as the pixel <<x, y>> of the initial window the
\* finger is on.
TouchPoints ==
    { <<50, 50>>, <<50, 60>>, <<50, 100>>, <<200, 50>>,
      <<140, 170>>, <<110, 130>>, <<275, 50>>, <<133, 300>>, <<150, 320>> }

\* The positions at which the special identifiers touch: one inside the
\* area, one outside it.
SpecialPoints == { <<50, 50>>, <<275, 50>> }

(***************************************************************************)
(* Numbers                                                                 *)
(***************************************************************************)

\* The value of Op at the values of its operands: an operand is evaluated
\* once, as C evaluates the argument of a call and the initializer of a
\* local variable.
With(v, Op(_)) == CHOOSE r \in { Op(x) : x \in {v} } : TRUE

With2(v, w, Op(_, _)) == CHOOSE r \in { Op(x, y) : x \in {v}, y \in {w} } : TRUE

With3(u, v, w, Op(_, _, _)) ==
    CHOOSE r \in { Op(x, y, z) : x \in {u}, y \in {v}, z \in {w} } : TRUE

Abs(n) == IF n < 0 THEN -n ELSE n

Min(a, b) == IF a < b THEN a ELSE b

\* Newton's iteration for the square root of n >= 1, from an x that is not
\* below the root: the iterates fall until the floor of the root is reached.
RECURSIVE Newton(_, _)
Newton(n, x) ==
    With((x + n \div x) \div 2, LAMBDA y : IF y >= x THEN x ELSE Newton(n, y))

\* floor of the square root of an integer below 2^31.
ISqrt(n) == IF n = 0 THEN 0 ELSE Newton(n, Min(n, 46340))

\* 2^23: one unit of the exponent field of a bit pattern.
TwoTo23 == 8388608

\* The fields of a float that is not zero: its sign, its biased exponent
\* and its 24-bit significand (the hidden bit included).  The value is
\* Sign * Significand * 2^(Exponent - 150).
Sign(a) == IF a < 0 THEN -1 ELSE 1

Exponent(a) == Abs(a) \div TwoTo23

Significand(a) == (Abs(a) % TwoTo23) + TwoTo23

\* n with its last bit set when the exact value lies above n: what is cut
\* off below n is remembered for the rounding.
Jam(n, inexact) == IF inexact /\ n % 2 = 0 THEN n + 1 ELSE n

\* The least s, from s on, with n \div 2^s below 2^24.
RECURSIVE Width(_, _)
Width(n, s) == IF n \div 2^s < 2 * TwoTo23 THEN s ELSE Width(n, s + 1)

\* The least s, from s on, with n * 2^s at least 2^23, for n > 0.
RECURSIVE Gap(_, _)
Gap(n, s) == IF n * 2^s >= TwoTo23 THEN s ELSE Gap(n, s + 1)

\* n \div k rounded to the nearest integer, ties to even.
RoundedQuotient(n, k) ==
    LET q == n \div k
        r == n % k
    IN  IF 2 * r > k \/ (2 * r = k /\ q % 2 = 1) THEN q + 1 ELSE q

\* The float nearest to sign * n * 2^(exponent - 150) for an integer n >= 0,
\* ties to even.
RoundPack(sign, n, exponent) ==
    IF n = 0 THEN 0
    ELSE IF n < TwoTo23
    THEN With(Gap(n, 0), LAMBDA s :
             sign * ((exponent - s) * TwoTo23 + n * 2^s - TwoTo23))
    ELSE With(Width(n, 0), LAMBDA s :
             sign * ((exponent + s) * TwoTo23 + RoundedQuotient(n, 2^s) - TwoTo23))

\* The NaN a division of zero by zero gives (the bit pattern FFC00000), and
\* the test for it or its negation.
NaN == -2143289344

IsNaN(a) == a = NaN \/ a = -NaN

\* a > b and a <= b of floats: false when an operand is NaN.
FloatGreater(a, b) == ~IsNaN(a) /\ ~IsNaN(b) /\ a > b

FloatLessEq(a, b) == ~IsNaN(a) /\ ~IsNaN(b) /\ a <= b

\* int -> float, for an int of magnitude below 2^31.
F(i) == With3(Sign(i), Abs(i), 150, RoundPack)

\* (int) of a float: truncation toward zero.
Trunc(a) ==
    IF a = 0 THEN 0
    ELSE LET shift == Exponent(a) - 150
         IN  IF shift >= 0 THEN Sign(a) * Significand(a) * 2^shift
             ELSE IF shift <= -24 THEN 0
             ELSE Sign(a) * (Significand(a) \div 2^(-shift))

\* The 48-bit product of two significands as hi * 2^24 + lo, from their
\* halves of 12 bits.
Product(m, n) ==
    With(m[1] * n[2] + m[2] * n[1], LAMBDA mid :
        With(m[2] * n[2] + (mid % 4096) * 4096, LAMBDA low :
            [hi |-> m[1] * n[1] + mid \div 4096 + low \div (2 * TwoTo23),
             lo |-> low % (2 * TwoTo23)]))

\* The halves of 12 bits of a significand.
Halves(m) == <<m \div 4096, m % 4096>>

\* a * b
FloatMul(a0, b0) ==
    With2(a0, b0, LAMBDA a, b :
        IF IsNaN(a) \/ IsNaN(b) THEN NaN
        ELSE IF a = 0 \/ b = 0 THEN 0
        ELSE With(Product(Halves(Significand(a)), Halves(Significand(b))), LAMBDA p :
                 With3(Sign(a) * Sign(b),
                       Jam(p.hi * 64 + p.lo \div 262144, p.lo % 262144 # 0),
                       Exponent(a) + Exponent(b) - 132,
                       RoundPack)))

\* One step of the long division by the significand d: s more bits of the
\* quotient.
DivideStep(qr, s, d) ==
    [q |-> qr.q * s + (qr.r * s) \div d, r |-> (qr.r * s) % d]

\* 28 bits of the quotient of the significand m by the significand d, and
\* the remainder that is left.
Quotient(m, d) ==
    With([q |-> m \div d, r |-> m % d], LAMBDA s0 :
    With(DivideStep(s0, 64, d), LAMBDA s1 :
    With(DivideStep(s1, 64, d), LAMBDA s2 :
    With(DivideStep(s2, 64, d), LAMBDA s3 :
    With(DivideStep(s3, 64, d), LAMBDA s4 :
        DivideStep(s4, 16, d))))))

\* a / b, where b is zero for a zero a only: 0 / 0 is NaN.
FloatDiv(a0, b0) ==
    With2(a0, b0, LAMBDA a, b :
        IF IsNaN(a) \/ IsNaN(b) \/ (a = 0 /\ b = 0) THEN NaN
        ELSE IF a = 0 THEN 0
        ELSE With(Quotient(Significand(a), Significand(b)), LAMBDA s :
                 With3(Sign(a) * Sign(b), Jam(s.q, s.r # 0),
                       Exponent(a) - Exponent(b) + 122,
                       RoundPack)))

\* The sum of two floats that are not zero, big the one of larger
\* magnitude.  Its significand gets six more bits, the other one is shifted
\* to the same exponent.
Sum(big, small) ==
    With3(Exponent(big) - Exponent(small), Significand(big) * 64, Significand(small) * 64,
          LAMBDA shift, x, ys :
        With(IF shift >= 31 THEN 1 ELSE Jam(ys \div 2^shift, ys % 2^shift # 0), LAMBDA y :
            With3(Sign(big),
                  IF Sign(big) = Sign(small) THEN x + y ELSE x - y,
                  Exponent(big) - 6,
                  RoundPack)))

\* a + b
FloatAdd(a0, b0) ==
    With2(a0, b0, LAMBDA a, b :
        IF IsNaN(a) \/ IsNaN(b) THEN NaN
        ELSE IF a = 0 THEN b
        ELSE IF b = 0 THEN a
        ELSE IF Abs(a) >= Abs(b) THEN Sum(a, b) ELSE Sum(b, a))

\* a - b
FloatSub(a, b) == FloatAdd(a, -b)

\* The root of m * 2^28 to 26 bits, with its last bit set when the root is
\* not exact: s0 * 2^11 + t, where s0 is the root of m * 2^6 and t the
\* quotient of what is left by 2 * s0, one less when its square does not fit.
Root(m) ==
    With(ISqrt(m * 64), LAMBDA s0 :
    With(m * 64 - s0 * s0, LAMBDA r0 :
    With((r0 * 2048) \div (2 * s0), LAMBDA t0 :
    With(IF (r0 * 2048 - 2 * s0 * t0) * 2048 - t0 * t0 < 0 THEN t0 - 1 ELSE t0, LAMBDA t :
        Jam(s0 * 2048 + t, (r0 * 2048 - 2 * s0 * t) * 2048 - t * t # 0)))))

\* sqrtf(a) for a >= 0 or NaN, with the exponent made even.
Sqrtf(a0) ==
    With(a0, LAMBDA a :
        IF IsNaN(a) THEN NaN
        ELSE IF a = 0 THEN 0
        ELSE IF (Exponent(a) - 150) % 2 # 0
        THEN With3(1, Root(2 * Significand(a)), (Exponent(a) - 151) \div 2 + 136, RoundPack)
        ELSE With3(1, Root(Significand(a)), (Exponent(a) - 150) \div 2 + 136, RoundPack))

\* 0.6f
SixTenths == 1058642330

\* Sint64 as <<upper 32 bits, lower 32 bits>>, both read as signed words.
\* An int converted to Sint64 (sign extension).
ToSint64(i) == [hi |-> IF i < 0 THEN -1 ELSE 0, lo |-> i]

\* A Sint64 converted to int: its low 32 bits.
ToInt(id) == id.lo

\* The identifiers events carry: the small ones 0..MaxFinger, and two that
\* the int field cannot tell apart from other values: -1 and 2^32.
SmallIds == { ToSint64(i) : i \in 0..MaxFinger }

SpecialIds == { ToSint64(-1), [hi |-> 1, lo |-> 0] }

FingerIds == SmallIds \cup SpecialIds

\* The value of _touch_index that stands for no finger.
NoFinger == -1

(***************************************************************************)
(* Vector2                                                                 *)
(***************************************************************************)

Vector2_Length(v) == Sqrtf(FloatAdd(FloatMul(v.x, v.x), FloatMul(v.y, v.y)))

Vector2_Normalize(v) ==
    With(Vector2_Length(v), LAMBDA len :
        IF len = 0 THEN [x |-> 0, y |-> 0]
        ELSE [x |-> FloatDiv(v.x, len), y |-> FloatDiv(v.y, len)])

\* Vector2_LimitLength that never shortens the vector.
Vector2_LimitLength_Unclamped(v, max_len) == v

Vector2_LimitLength(v, max_len) ==
    With(Vector2_Length(v), LAMBDA len :
        IF FloatGreater(len, max_len)
        THEN [x |-> FloatMul(FloatDiv(v.x, len), max_len),
              y |-> FloatMul(FloatDiv(v.y, len), max_len)]
        ELSE v)

ZeroOutput == [x |-> 0, y |-> 0]

(***************************************************************************)
(* Helpers of the joystick                                                 *)
(***************************************************************************)

SDL_PointInRect(p, r) ==
    /\ p.x >= r.x
    /\ p.x < r.x + r.w
    /\ p.y >= r.y
    /\ p.y < r.y + r.h

_is_point_inside_joystick_area(j, point) ==
    SDL_PointInRect([x |-> Trunc(point.x), y |-> Trunc(point.y)], j.joystick_area)

_is_point_inside_base(j, point) ==
    With2(FloatSub(point.x, j._base_center.x), FloatSub(point.y, j._base_center.y),
          LAMBDA dx, dy :
        FloatLessEq(FloatAdd(FloatMul(dx, dx), FloatMul(dy, dy)),
                    F(j._base_radius * j._base_radius)))

_move_base(j, new_center) == [j EXCEPT !._base_center = new_center]

_move_tip(j, new_center) == [j EXCEPT !._tip_center = new_center]

\* FollowBase that never moves the base.
FollowBase_Never(j, touch_position, vector_from_base_center, clamped_vector) == j

\* FOLLOWING mode: the base moves when the finger is outside the clampzone.
FollowBase(j, touch_position, vector_from_base_center, clamped_vector) ==
    IF /\ j.joystick_mode = "JOYSTICK_MODE_FOLLOWING"
       /\ FloatGreater(Vector2_Length(vector_from_base_center), j.clampzone_size)
    THEN _move_base(j, [x |-> FloatSub(touch_position.x, clamped_vector.x),
                        y |-> FloatSub(touch_position.y, clamped_vector.y)])
    ELSE j

\* JoystickOutput with the dead zone not taken off the effective length.
JoystickOutput_FullLength(j, clamped_vector) ==
    IF FloatGreater(Vector2_Length(clamped_vector), j.deadzone_size)
    THEN With3(Vector2_Normalize(clamped_vector),
               Vector2_Length(clamped_vector),
               FloatSub(j.clampzone_size, j.deadzone_size),
               LAMBDA normalized_vector, effective_length, max_effective_length :
             [j EXCEPT !.is_pressed = TRUE,
                       !.output =
                           IF FloatLessEq(max_effective_length, 0) THEN ZeroOutput
                           ELSE With(FloatDiv(effective_length, max_effective_length),
                                     LAMBDA scale :
                                    [x |-> FloatMul(normalized_vector.x, scale),
                                     y |-> FloatMul(normalized_vector.y, scale)])])
    ELSE [j EXCEPT !.is_pressed = FALSE, !.output = ZeroOutput]

\* JoystickOutput that counts a touch on the edge of the dead zone as pressed.
JoystickOutput_PressedAtDeadzone(j, clamped_vector) ==
    IF ~IsNaN(Vector2_Length(clamped_vector)) /\ Vector2_Length(clamped_vector) >= j.deadzone_size
    THEN With3(Vector2_Normalize(clamped_vector),
               FloatSub(Vector2_Length(clamped_vector), j.deadzone_size),
               FloatSub(j.clampzone_size, j.deadzone_size),
               LAMBDA normalized_vector, effective_length, max_effective_length :
             [j EXCEPT !.is_pressed = TRUE,
                       !.output =
                           IF FloatLessEq(max_effective_length, 0) THEN ZeroOutput
                           ELSE With(FloatDiv(effective_length, max_effective_length),
                                     LAMBDA scale :
                                    [x |-> FloatMul(normalized_vector.x, scale),
                                     y |-> FloatMul(normalized_vector.y, scale)])])
    ELSE [j EXCEPT !.is_pressed = FALSE, !.output = ZeroOutput]

\* The output and the pressed flag from the clamped vector.
JoystickOutput(j, clamped_vector) ==
    IF FloatGreater(Vector2_Length(clamped_vector), j.deadzone_size)
    THEN With3(Vector2_Normalize(clamped_vector),
               FloatSub(Vector2_Length(clamped_vector), j.deadzone_size),
               FloatSub(j.clampzone_size, j.deadzone_size),
               LAMBDA normalized_vector, effective_length, max_effective_length :
             [j EXCEPT !.is_pressed = TRUE,
                       !.output =
                           IF FloatLessEq(max_effective_length, 0) THEN ZeroOutput
                           ELSE With(FloatDiv(effective_length, max_effective_length),
                                     LAMBDA scale :
                                    [x |-> FloatMul(normalized_vector.x, scale),
                                     y |-> FloatMul(normalized_vector.y, scale)])])
    ELSE [j EXCEPT !.is_pressed = FALSE, !.output = ZeroOutput]

_update_joystick_logic(j, touch_position) ==
    With([x |-> FloatSub(touch_position.x, j._base_center.x),
          y |-> FloatSub(touch_position.y, j._base_center.y)],
         LAMBDA vector_from_base_center :
    With(Vector2_LimitLength(vector_from_base_center, j.clampzone_size),
         LAMBDA clamped_vector :
    With(FollowBase(j, touch_position, vector_from_base_center, clamped_vector),
         LAMBDA j1 :
    With(_move_tip(j1, [x |-> FloatAdd(j1._base_center.x, clamped_vector.x),
                        y |-> FloatAdd(j1._base_center.y, clamped_vector.y)]),
         LAMBDA j2 :
        JoystickOutput(j2, clamped_vector)))))

\* The divisors of the float divisions the update routine performs for a
\* touch: the length in Vector2_LimitLength when the vector is shortened,
\* the length in Vector2_Normalize when it is not zero, and
\* max_effective_length when the output is a quotient.
UpdateDivisors(j, touch_position) ==
    With([x |-> FloatSub(touch_position.x, j._base_center.x),
          y |-> FloatSub(touch_position.y, j._base_center.y)],
         LAMBDA vector_from_base_center :
    With3(Vector2_Length(vector_from_base_center),
          Vector2_Length(Vector2_LimitLength(vector_from_base_center, j.clampzone_size)),
          FloatSub(j.clampzone_size, j.deadzone_size),
          LAMBDA length, clamped_length, max_effective_length :
        (IF FloatGreater(length, j.clampzone_size) THEN {length} ELSE {})
        \cup (IF FloatGreater(clamped_length, j.deadzone_size) /\ clamped_length # 0
              THEN {clamped_length} ELSE {})
        \cup (IF /\ FloatGreater(clamped_length, j.deadzone_size)
                 /\ ~FloatLessEq(max_effective_length, 0)
              THEN {max_effective_length} ELSE {})))

\* _reset_joystick that leaves the tip where it is.
_reset_joystick_KeepsTip(j) ==
    [j EXCEPT !.is_pressed = FALSE,
              !.output = ZeroOutput,
              !._touch_index = NoFinger,
              !._tip_color_mod = j._default_tip_color,
              !._base_center = j._base_default_center,
              !._hidden = TRUE]

\* _reset_joystick that moves the tip to the base before the base moves.
_reset_joystick_TipToOldBase(j) ==
    [j EXCEPT !.is_pressed = FALSE,
              !.output = ZeroOutput,
              !._touch_index = NoFinger,
              !._tip_color_mod = j._default_tip_color,
              !._base_center = j._base_default_center,
              !._tip_center = j._base_center,
              !._hidden = TRUE]

_reset_joystick(j) ==
    [j EXCEPT !.is_pressed = FALSE,
              !.output = ZeroOutput,
              !._touch_index = NoFinger,
              !._tip_color_mod = j._default_tip_color,
              !._base_center = j._base_default_center,
              !._tip_center = j._base_default_center,
              !._hidden = TRUE]

\* The center of an area: area.x + area.w / 2.0f, area.y + area.h / 2.0f.
AreaCenter(area) ==
    [x |-> FloatAdd(F(area.x), FloatDiv(F(area.w), F(2))),
     y |-> FloatAdd(F(area.y), FloatDiv(F(area.h), F(2)))]

\* The fields of the struct after a creation that succeeded.  The base
\* radius is (int)(fmin(width, height) * 0.25f), a product in double that
\* is exact, for a width and a height that are not negative.
VirtualJoystick_Create(x, y, width, height, window_width, window_height) ==
    With3([x |-> x, y |-> y, w |-> width, h |-> height],
          Min(width, height) \div 4,
          AreaCenter([x |-> x, y |-> y, w |-> width, h |-> height]),
          LAMBDA area, base_radius, default_center :
        [ joystick_area        |-> area,
          _window_width        |-> window_width,
          _window_height       |-> window_height,
          pressed_color        |-> <<100, 100, 100>>,
          deadzone_size        |-> F(10),
          clampzone_size       |-> F(75),
          joystick_mode        |-> "JOYSTICK_MODE_DYNAMIC",
          is_pressed           |-> FALSE,
          output               |-> ZeroOutput,
          _touch_index         |-> NoFinger,
          _base_radius         |-> base_radius,
          _tip_radius          |-> Trunc(FloatMul(F(base_radius), SixTenths)),
          _default_tip_color   |-> <<200, 200, 200>>,
          _tip_color_mod       |-> <<255, 255, 255>>,
          _base_default_center |-> default_center,
          _base_center         |-> default_center,
          _tip_center          |-> default_center,
          _hidden              |-> TRUE ])

\* VirtualJoystick_SetWindowSize that also resets the joystick.
VirtualJoystick_SetWindowSize_Resets(j, width, height) ==
    _reset_joystick([j EXCEPT !._window_width = width, !._window_height = height])

VirtualJoystick_SetWindowSize(j, width, height) ==
    [j EXCEPT !._window_width = width, !._window_height = height]

\* The pixel position of a finger event: the normalized coordinates times
\* the stored window size, a product of floats.
TouchPos(j, event) ==
    [x |-> FloatMul(event.x, F(j._window_width)),
     y |-> FloatMul(event.y, F(j._window_height))]

\* ShouldActivate without the test that no finger is tracked.
ShouldActivate_Untracked(j, touch_pos) ==
    /\ _is_point_inside_joystick_area(j, touch_pos)
    /\ \/ j.joystick_mode = "JOYSTICK_MODE_DYNAMIC"
       \/ j.joystick_mode = "JOYSTICK_MODE_FOLLOWING"
       \/ /\ j.joystick_mode = "JOYSTICK_MODE_FIXED"
          /\ _is_point_inside_base(j, touch_pos)

\* The test of the SDL_FINGERDOWN case: inside the area, no finger tracked,
\* and should_activate.
ShouldActivate(j, touch_pos) ==
    /\ _is_point_inside_joystick_area(j, touch_pos)
    /\ j._touch_index = NoFinger
    /\ \/ j.joystick_mode = "JOYSTICK_MODE_DYNAMIC"
       \/ j.joystick_mode = "JOYSTICK_MODE_FOLLOWING"
       \/ /\ j.joystick_mode = "JOYSTICK_MODE_FIXED"
          /\ _is_point_inside_base(j, touch_pos)

\* event->tfinger.fingerId == joystick->_touch_index, compared as Sint64.
SameFinger(j, event) == event.fingerId = ToSint64(j._touch_index)

\* OnFingerDown that moves the base to the touch in every mode.
OnFingerDown_MovesBase(j, event) ==
    With(TouchPos(j, event), LAMBDA touch_pos :
        LET j1 == _move_base(j, touch_pos)
            j2 == [j1 EXCEPT !._touch_index = ToInt(event.fingerId),
                             !._hidden = FALSE,
                             !._tip_color_mod = j.pressed_color]
        IN  IF ShouldActivate(j, touch_pos)
            THEN _update_joystick_logic(j2, touch_pos)
            ELSE j)

\* OnFingerDown that leaves the update to the next touch-move.
OnFingerDown_Deferred(j, event) ==
    With(TouchPos(j, event), LAMBDA touch_pos :
        LET j1 == IF j.joystick_mode \in {"JOYSTICK_MODE_DYNAMIC", "JOYSTICK_MODE_FOLLOWING"}
                  THEN _move_base(j, touch_pos)
                  ELSE j
            j2 == [j1 EXCEPT !._touch_index = ToInt(event.fingerId),
                             !._hidden = FALSE,
                             !._tip_color_mod = j.pressed_color]
        IN  IF ShouldActivate(j, touch_pos) THEN j2 ELSE j)

\* The SDL_FINGERDOWN case.
OnFingerDown(j, event) ==
    With(TouchPos(j, event), LAMBDA touch_pos :
        LET j1 == IF j.joystick_mode \in {"JOYSTICK_MODE_DYNAMIC", "JOYSTICK_MODE_FOLLOWING"}
                  THEN _move_base(j, touch_pos)
                  ELSE j
            j2 == [j1 EXCEPT !._touch_index = ToInt(event.fingerId),
                             !._hidden = FALSE,
                             !._tip_color_mod = j.pressed_color]
        IN  IF ShouldActivate(j, touch_pos)
            THEN _update_joystick_logic(j2, touch_pos)
            ELSE j)

\* OnFingerUp that resets on the release of any finger.
OnFingerUp_AnyFinger(j, event) == _reset_joystick(j)

\* The SDL_FINGERUP case.
OnFingerUp(j, event) ==
    IF SameFinger(j, event) THEN _reset_joystick(j) ELSE j

\* OnFingerMotion that follows the motion of any finger.
OnFingerMotion_AnyFinger(j, event) ==
    With(TouchPos(j, event), LAMBDA touch_pos : _update_joystick_logic(j, touch_pos))

\* The SDL_FINGERMOTION case.
OnFingerMotion(j, event) ==
    IF SameFinger(j, event)
    THEN With(TouchPos(j, event), LAMBDA touch_pos : _update_joystick_logic(j, touch_pos))
    ELSE j

\* VirtualJoystick_HandleEvent without the early return of a hidden joystick.
VirtualJoystick_HandleEvent_NoEarlyReturn(j, event) ==
    CASE event.type = "SDL_FINGERDOWN"   -> OnFingerDown(j, event)
      [] event.type = "SDL_FINGERUP"     -> OnFingerUp(j, event)
      [] event.type = "SDL_FINGERMOTION" -> OnFingerMotion(j, event)
      [] OTHER                           -> j

VirtualJoystick_HandleEvent(j, event) ==
    IF j._hidden /\ event.type # "SDL_FINGERDOWN" THEN j
    ELSE CASE event.type = "SDL_FINGERDOWN"   -> OnFingerDown(j, event)
           [] event.type = "SDL_FINGERUP"     -> OnFingerUp(j, event)
           [] event.type = "SDL_FINGERMOTION" -> OnFingerMotion(j, event)
           [] OTHER                           -> j

(***************************************************************************)
(* Resources                                                               *)
(***************************************************************************)

\* A texture the struct owns: the pointer in the struct's field, and how
\* often a texture was created for it and SDL_DestroyTexture called on it.
NoTexture == [field |-> "NULL", created |-> 0, destroyed |-> 0]

\* create_circle_texture: a texture, or NULL when SDL_CreateTexture fails.
create_circle_texture(ok) ==
    IF ok THEN [field |-> "texture", created |-> 1, destroyed |-> 0]
    ELSE NoTexture

\* What the fields _base_texture and _tip_texture read as through a pointer
\* to a freed struct: the old pointer or anything else, NULL included.
StaleReads == [_base_texture : {"NULL", "texture"}, _tip_texture : {"NULL", "texture"}]

\* VirtualJoystick_Destroy(pointer).  h.block is the state of the struct's
\* memory; through a pointer to freed memory the fields read as stale.
VirtualJoystick_Destroy(h, pointer, stale) ==
    IF pointer = "NULL" THEN h
    ELSE LET freed == h.block # "allocated"
             base  == IF freed THEN stale._base_texture ELSE h._base_texture.field
             tip   == IF freed THEN stale._tip_texture ELSE h._tip_texture.field
         IN  [h EXCEPT !.freed_reads = @ \/ freed,
                       !._base_texture.destroyed = IF base # "NULL" THEN @ + 1 ELSE @,
                       !._tip_texture.destroyed = IF tip # "NULL" THEN @ + 1 ELSE @,
                       !.block = "freed",
                       !.free_calls = @ + 1]

\* CreateHeap that returns NULL on a missing texture without cleaning up.
CreateHeap_LeaksOnFailure(malloc_ok, base_ok, tip_ok) ==
    LET none == [block |-> "unallocated", free_calls |-> 0,
                 _base_texture |-> NoTexture, _tip_texture |-> NoTexture,
                 freed_reads |-> FALSE, pointer |-> "NULL", destroy_calls |-> 0]
        made == [none EXCEPT !.block = "allocated",
                             !._base_texture = create_circle_texture(base_ok),
                             !._tip_texture = create_circle_texture(tip_ok)]
    IN  IF ~malloc_ok THEN none
        ELSE IF made._base_texture.field = "NULL" \/ made._tip_texture.field = "NULL"
        THEN made
        ELSE [made EXCEPT !.pointer = "block"]

\* The resources after VirtualJoystick_Create has returned, and the pointer
\* it returned to the owner: malloc, the two textures, and the clean-up
\* when a texture is missing (of an allocated struct: no field reads stale).
CreateHeap(malloc_ok, base_ok, tip_ok) ==
    LET none == [block |-> "unallocated", free_calls |-> 0,
                 _base_texture |-> NoTexture, _tip_texture |-> NoTexture,
                 freed_reads |-> FALSE, pointer |-> "NULL", destroy_calls |-> 0]
        made == [none EXCEPT !.block = "allocated",
                             !._base_texture = create_circle_texture(base_ok),
                             !._tip_texture = create_circle_texture(tip_ok)]
    IN  IF ~malloc_ok THEN none
        ELSE IF made._base_texture.field = "NULL" \/ made._tip_texture.field = "NULL"
        THEN VirtualJoystick_Destroy(made, "block", CHOOSE r \in StaleReads : TRUE)
        ELSE [made EXCEPT !.pointer = "block"]

(***************************************************************************)
(* Events                                                                  *)
(***************************************************************************)

\* tfinger.x of a touch on pixel p of a window `size` pixels wide: the float
\* p / size.
Normalized(p, size) == FloatDiv(F(p), F(size))

\* The touch events of a type for identifiers at positions.
FingerEvents(type, ids, points) ==
    { [type |-> type, fingerId |-> id,
       x |-> Normalized(p[1], InitialWindow[1]),
       y |-> Normalized(p[2], InitialWindow[2])] :
        id \in ids, p \in points }

\* Touch-down and touch-move events: a small identifier at any position, a
\* special one at the positions of SpecialPoints.
FingerDownEvents ==
    FingerEvents("SDL_FINGERDOWN", SmallIds, TouchPoints)
        \cup FingerEvents("SDL_FINGERDOWN", SpecialIds, SpecialPoints)

FingerMotionEvents ==
    FingerEvents("SDL_FINGERMOTION", SmallIds, TouchPoints)
        \cup FingerEvents("SDL_FINGERMOTION", SpecialIds, SpecialPoints)

\* Touch-up events, of which the handler reads the identifier only: every
\* identifier at the positions of SpecialPoints.
FingerUpEvents == FingerEvents("SDL_FINGERUP", FingerIds, SpecialPoints)

\* An event that is neither a touch event nor a resize.
KeyEvent == [type |-> "SDL_KEYDOWN"]

ResizeEvents ==
    { [type |-> "SDL_WINDOWEVENT", data1 |-> s[1], data2 |-> s[2]] : s \in WindowSizes }

\* What main writes to the public fields after creation.
MainConfiguration == [joystick_mode |-> "JOYSTICK_MODE_DYNAMIC", zones |-> <<100, 20>>]

\* What an owner writes to the public fields while its loop runs: the values
\* main sets, and a smaller clamp zone with a dead zone as large, with every
\* mode.
Customizations ==
    [ joystick_mode  : {"JOYSTICK_MODE_FIXED", "JOYSTICK_MODE_DYNAMIC",
                        "JOYSTICK_MODE_FOLLOWING"},
      zones          : {<<100, 20>>, <<75, 75>>} ]

\* The owner's own event, carrying what it writes to the joystick.
CustomizeEvents ==
    { [type |-> "SDL_USEREVENT", joystick_mode |-> c.joystick_mode, zones |-> c.zones] :
        c \in Customizations }

(***************************************************************************)
(* The state machine                                                       *)
(***************************************************************************)

\* The writes of the three public fields: joystick_mode, clampzone_size and
\* deadzone_size.
Customized(j, c) ==
    [j EXCEPT !.joystick_mode = c.joystick_mode,
              !.clampzone_size = F(c.zones[1]),
              !.deadzone_size = F(c.zones[2])]

\* The joystick a call of VirtualJoystick_Create returns.
Created(call) ==
    VirtualJoystick_Create(call[1], call[2], call[3], call[4], call[5], call[6])

\* main up to its loop: the joystick is created over the left third of the
\* window, then the three fields are written.
Init ==
    /\ joystick = Customized(Created(MainCall), MainConfiguration)
    /\ e = KeyEvent
    /\ heap = CreateHeap(TRUE, TRUE, TRUE)
    /\ moves = 0
    /\ quit = FALSE

\* One iteration of the event loop for a polled event that is not a resize:
\* the event goes to the joystick.
FingerDown ==
    \E event \in FingerDownEvents :
        /\ e' = event
        /\ joystick' = VirtualJoystick_HandleEvent(joystick, event)
        /\ moves' = IF joystick' # joystick THEN 0 ELSE moves
        /\ UNCHANGED <<heap, quit>>

FingerUp ==
    \E event \in FingerUpEvents :
        /\ e' = event
        /\ joystick' = VirtualJoystick_HandleEvent(joystick, event)
        /\ moves' = IF joystick'._hidden THEN 0 ELSE moves
        /\ UNCHANGED <<heap, quit>>

FingerMotion ==
    \E event \in FingerMotionEvents :
        /\ moves < MaxMoves
        /\ e' = event
        /\ joystick' = VirtualJoystick_HandleEvent(joystick, event)
        /\ moves' = IF joystick'._base_center # joystick._base_center
                    THEN moves + 1 ELSE moves
        /\ UNCHANGED <<heap, quit>>

OtherEvent ==
    /\ e' = KeyEvent
    /\ joystick' = VirtualJoystick_HandleEvent(joystick, KeyEvent)
    /\ UNCHANGED <<heap, moves, quit>>

\* The resize branch of main's loop, then the dispatch of the same event.
MainResize(j, event) ==
    LET j1 == VirtualJoystick_SetWindowSize(j, event.data1, event.data2)
        area == [x |-> 0, y |-> 0, w |-> event.data1 \div 3, h |-> event.data2]
        j2 == [j1 EXCEPT !.joystick_area = area,
                         !._base_default_center = AreaCenter(area)]
    IN  With(_reset_joystick(j2), LAMBDA j3 : VirtualJoystick_HandleEvent(j3, event))

WindowResized ==
    \E event \in ResizeEvents :
        /\ e' = event
        /\ joystick' = MainResize(joystick, event)
        /\ moves' = 0
        /\ UNCHANGED <<heap, quit>>

\* main's loop.
Next ==
    \/ FingerDown
    \/ FingerUp
    \/ FingerMotion
    \/ OtherEvent
    \/ WindowResized

Spec == Init /\ [][Next]_vars

\* main with JOYSTICK_MODE_FIXED written in place of JOYSTICK_MODE_DYNAMIC,
\* and the zones of creation or of main.
FixedConfigurations ==
    { [joystick_mode |-> "JOYSTICK_MODE_FIXED", zones |-> <<75, 10>>],
      [joystick_mode |-> "JOYSTICK_MODE_FIXED", zones |-> <<100, 20>>] }

InitFixed ==
    \E c \in FixedConfigurations :
        /\ joystick = Customized(Created(MainCall), c)
        /\ e = KeyEvent
        /\ heap = CreateHeap(TRUE, TRUE, TRUE)
        /\ moves = 0
        /\ quit = FALSE

SpecFixed == InitFixed /\ [][Next]_vars

\* main with a misconfiguration written before the loop: a dead zone above
\* the clamp zone, and a negative clamp zone.
MisconfiguredConfigurations ==
    { [joystick_mode |-> "JOYSTICK_MODE_DYNAMIC", zones |-> <<75, 100>>],
      [joystick_mode |-> "JOYSTICK_MODE_DYNAMIC", zones |-> <<-1, 0>>],
      [joystick_mode |-> "JOYSTICK_MODE_FOLLOWING", zones |-> <<75, 100>>],
      [joystick_mode |-> "JOYSTICK_MODE_FOLLOWING", zones |-> <<-1, 0>>] }

InitMisconfigured ==
    \E c \in MisconfiguredConfigurations :
        /\ joystick = Customized(Created(MainCall), c)
        /\ e = KeyEvent
        /\ heap = CreateHeap(TRUE, TRUE, TRUE)
        /\ moves = 0
        /\ quit = FALSE

SpecMisconfigured == InitMisconfigured /\ [][Next]_vars

\* The program of the README's usage: the joystick is created, the owner
\* writes the public fields once before its loop, as main does, and on a
\* window resize it pushes the new size in through the setter, and nothing
\* else; the event then goes to the joystick like every event.
UsageConfigurations ==
    { [call |-> MainCall, joystick_mode |-> "JOYSTICK_MODE_DYNAMIC", zones |-> <<75, 10>>],
      [call |-> MainCall, joystick_mode |-> "JOYSTICK_MODE_FIXED", zones |-> <<75, 10>>],
      [call |-> MainCall, joystick_mode |-> "JOYSTICK_MODE_FOLLOWING", zones |-> <<75, 10>>] }

InitUsage ==
    \E c \in UsageConfigurations :
        /\ joystick = Customized(Created(c.call), c)
        /\ e = KeyEvent
        /\ heap = CreateHeap(TRUE, TRUE, TRUE)
        /\ moves = 0
        /\ quit = FALSE

UsageResize(j, event) ==
    With(VirtualJoystick_SetWindowSize(j, event.data1, event.data2),
         LAMBDA j1 : VirtualJoystick_HandleEvent(j1, event))

WindowSizeSet ==
    \E event \in ResizeEvents :
        /\ e' = event
        /\ joystick' = UsageResize(joystick, event)
        /\ UNCHANGED <<heap, moves, quit>>

NextUsage ==
    \/ FingerDown
    \/ FingerUp
    \/ FingerMotion
    \/ OtherEvent
    \/ WindowSizeSet

SpecUsage == InitUsage /\ [][NextUsage]_vars

\* The same program for the joystick of the README's scenario: DYNAMIC mode
\* on the area (0,0,200,600) with the zones creation sets.
InitScenario ==
    /\ joystick = Customized(Created(ScenarioCall),
                             [joystick_mode |-> "JOYSTICK_MODE_DYNAMIC", zones |-> <<75, 10>>])
    /\ e = KeyEvent
    /\ heap = CreateHeap(TRUE, TRUE, TRUE)
    /\ moves = 0
    /\ quit = FALSE

SpecScenario == InitScenario /\ [][NextUsage]_vars

\* An owner that also writes the public fields between the events of its
\* loop: it does so when it polls an event of its own, which then goes to
\* the joystick like every event.
OwnerCustomize(j, event) ==
    With(Customized(j, event), LAMBDA j1 : VirtualJoystick_HandleEvent(j1, event))

Customize ==
    \E event \in CustomizeEvents :
        /\ e' = event
        /\ joystick' = OwnerCustomize(joystick, event)
        /\ UNCHANGED <<heap, moves, quit>>

NextOwner ==
    \/ FingerDown
    \/ FingerUp
    \/ FingerMotion
    \/ OtherEvent
    \/ Customize

SpecOwner == Init /\ [][NextOwner]_vars

\* main from the return of VirtualJoystick_Create, with every outcome of its
\* allocations, to VirtualJoystick_Destroy after the loop, and the further
\* calls of VirtualJoystick_Destroy an owner makes with the same pointer.
\* After a creation that succeeded main writes the public fields; after one
\* that failed it returns, and the joystick variable, which nothing reads
\* then, keeps the values creation wrote.
InitLifecycle ==
    \E malloc_ok \in BOOLEAN, base_ok \in BOOLEAN, tip_ok \in BOOLEAN :
        /\ heap = CreateHeap(malloc_ok, base_ok, tip_ok)
        /\ joystick = IF malloc_ok /\ base_ok /\ tip_ok
                      THEN Customized(Created(MainCall), MainConfiguration)
                      ELSE Created(MainCall)
        /\ e = KeyEvent
        /\ moves = 0
        /\ quit = FALSE

\* The loop runs with a joystick that was created and is not destroyed.
Live == heap.pointer = "block" /\ heap.block = "allocated"

\* An iteration of main's event loop, also for the events polled after
\* SDL_QUIT in the same batch.
LiveEvent == Live /\ Next

\* The event that ends main's loop.
QuitEvent == [type |-> "SDL_QUIT"]

\* The iteration of the event loop for SDL_QUIT: quit is set, and the event
\* goes to the joystick like every event; the loop goes on polling.
QuitPolled ==
    /\ Live
    /\ e' = QuitEvent
    /\ joystick' = VirtualJoystick_HandleEvent(joystick, QuitEvent)
    /\ quit' = TRUE
    /\ UNCHANGED <<heap, moves>>

\* VirtualJoystick_Destroy(pointer): main's call after the loop that quit has
\* ended, and an owner's call with a NULL pointer or with the pointer of a
\* joystick that is destroyed.  The pointer is passed by value: the owner's
\* pointer is what it was, also after the struct is freed.  No event is
\* polled.
DestroyCall ==
    /\ heap.destroy_calls < MaxDestroyCalls
    /\ Live => quit
    /\ \E stale \in StaleReads :
          heap' = [VirtualJoystick_Destroy(heap, heap.pointer, stale)
                       EXCEPT !.destroy_calls = @ + 1]
    /\ UNCHANGED <<joystick, e, moves, quit>>

NextLifecycle ==
    \/ LiveEvent
    \/ QuitPolled
    \/ DestroyCall

SpecLifecycle == InitLifecycle /\ [][NextLifecycle]_vars
(***************************************************************************)
(* Properties                                                              *)
(*                                                                         *)
(* Distances and magnitudes are compared exactly: a float becomes an       *)
(* integer number of units of 2^-k, and the squares are formed in two      *)
(* words of 30 bits.                                                       *)
(***************************************************************************)

\* A float as the integer a * 2^k, cut toward zero, and whether nothing was
\* cut.
Fixed(a, k) ==
    IF a = 0 THEN 0
    ELSE LET shift == Exponent(a) - 150 + k
         IN  IF shift >= 0 THEN Sign(a) * Significand(a) * 2^shift
             ELSE IF shift <= -24 THEN 0
             ELSE Sign(a) * (Significand(a) \div 2^(-shift))

IsFixed(a, k) ==
    \/ a = 0
    \/ Exponent(a) - 150 + k >= 0
    \/ /\ Exponent(a) - 150 + k > -24
       /\ Significand(a) % 2^(150 - k - Exponent(a)) = 0

\* n * n for 0 <= n < 2^30, as <<upper word, lower word of 30 bits>>.
Square(n) ==
    LET a == n \div 32768
        b == n % 32768
        c == 2 * a * b
        low == b * b + (c % 32768) * 32768
    IN  <<a * a + c \div 32768 + low \div 2^30, low % 2^30>>

\* m * m + n * n for integers of magnitude below 2^29.
SumOfSquares(m, n) ==
    LET s == Square(Abs(m))
        t == Square(Abs(n))
    IN  <<s[1] + t[1] + (s[2] + t[2]) \div 2^30, (s[2] + t[2]) % 2^30>>

WideLeq(u, v) == u[1] < v[1] \/ (u[1] = v[1] /\ u[2] <= v[2])

\* A pixel coordinate or length below 1024 in units of 2^-19 pixel: exact
\* from 16 pixels up.
Fine(a) == Fixed(a, 19)

\* The distance of the positions p and q is at most r + slack * 2^-19, for
\* a float r and an integer slack.
WithinDistance(p, q, r, slack) ==
    /\ Fine(r) + slack >= 0
    /\ WideLeq(SumOfSquares(Fine(p.x) - Fine(q.x), Fine(p.y) - Fine(q.y)),
               Square(Fine(r) + slack))

\* Every position of the joystick is a whole number of units of 2^-19 pixel.
FinePositions ==
    \A a \in {joystick._base_center.x, joystick._base_center.y,
              joystick._tip_center.x, joystick._tip_center.y,
              joystick._base_default_center.x, joystick._base_default_center.y} :
        IsFixed(a, 19) /\ Abs(Fine(a)) < 2^29

\* The magnitude of a component of the output, below 2, in units of 2^-28:
\* cut toward zero, and rounded away from zero.
Down28(a) == Fixed(Abs(a), 28)

Up28(a) == IF IsFixed(a, 28) THEN Down28(a) ELSE Down28(a) + 1

\* The float 2^-k, for 0 <= k < 127.
TwoToMinus(k) == F(1) - k * TwoTo23

\* The joystick tracks a finger: the stored identifier is not the sentinel.
Tracked(j) == j._touch_index # NoFinger

Idle(j) == j._hidden /\ ~Tracked(j)

Active(j) == ~j._hidden /\ Tracked(j)

\* Half-open containment of a float position in the area rectangle.
InAreaRectangle(j, p) ==
    /\ F(j.joystick_area.x) <= p.x
    /\ p.x < F(j.joystick_area.x + j.joystick_area.w)
    /\ F(j.joystick_area.y) <= p.y
    /\ p.y < F(j.joystick_area.y + j.joystick_area.h)

\* The position is in the base circle: its squared distance from the base
\* center is at most the squared base radius.
InBaseCircle(j, p) == WithinDistance(p, j._base_center, F(j._base_radius), 0)

\* C1: a touch-down event that arrives while a finger is tracked changes
\* nothing of the joystick, whatever its mode, identifier and position.
C1_SecondTouchDownIgnored ==
    [][ (e'.type = "SDL_FINGERDOWN" /\ Tracked(joystick)) => joystick' = joystick ]_vars

\* C1 witness: in FOLLOWING mode a touch-down inside the area by another
\* finger has been handled while a finger is tracked, and the base is not
\* at that touch.
C1_Witness ==
    /\ e.type = "SDL_FINGERDOWN"
    /\ Tracked(joystick)
    /\ ~joystick._hidden
    /\ joystick.joystick_mode = "JOYSTICK_MODE_FOLLOWING"
    /\ e.fingerId # ToSint64(joystick._touch_index)
    /\ InAreaRectangle(joystick, TouchPos(joystick, e))
    /\ joystick._base_center # TouchPos(joystick, e)

\* C1 in the other modes: the same in DYNAMIC and in FIXED mode, the touch
\* of the FIXED joystick being in the base circle.
C1_Dynamic ==
    /\ e.type = "SDL_FINGERDOWN"
    /\ Active(joystick)
    /\ joystick.joystick_mode = "JOYSTICK_MODE_DYNAMIC"
    /\ e.fingerId # ToSint64(joystick._touch_index)
    /\ InAreaRectangle(joystick, TouchPos(joystick, e))
    /\ joystick._base_center # TouchPos(joystick, e)

C1_Fixed ==
    /\ e.type = "SDL_FINGERDOWN"
    /\ Active(joystick)
    /\ joystick.joystick_mode = "JOYSTICK_MODE_FIXED"
    /\ InAreaRectangle(joystick, TouchPos(joystick, e))
    /\ InBaseCircle(joystick, TouchPos(joystick, e))
    /\ joystick._tip_center # TouchPos(joystick, e)

\* C2: in every reachable state hidden is true exactly when no finger is
\* tracked (the controller is Idle or Active).
C2_IdleOrActive == Idle(joystick) \/ Active(joystick)

\* The gate of the touch-down transition, as the claim C3 states it.
ActivationGate(j, p) ==
    /\ ~Tracked(j)
    /\ InAreaRectangle(j, p)
    /\ j.joystick_mode = "JOYSTICK_MODE_FIXED" => InBaseCircle(j, p)

\* C3: a touch-down moves the controller from Idle to Active exactly when
\* the gate passes; when the gate fails nothing changes; when it passes the
\* identifier of the event is the tracked identifier and hidden is false.
C3_ActivationGate ==
    [][ e'.type = "SDL_FINGERDOWN" =>
          LET gate == ActivationGate(joystick, TouchPos(joystick, e'))
          IN  /\ Idle(joystick) => (Active(joystick') <=> gate)
              /\ ~gate => joystick' = joystick
              /\ gate => /\ ToSint64(joystick'._touch_index) = e'.fingerId
                          /\ ~joystick'._hidden ]_vars

\* The part of C3 that does not compare identifiers: the gate decides
\* whether hidden becomes false, and a failed gate changes nothing.
C3_GateWithoutIdentifier ==
    [][ e'.type = "SDL_FINGERDOWN" =>
          LET gate == ActivationGate(joystick, TouchPos(joystick, e'))
          IN  /\ joystick._hidden => (~joystick'._hidden <=> gate)
              /\ ~gate => joystick' = joystick
              /\ gate => /\ joystick'._touch_index = ToInt(e'.fingerId)
                          /\ ~joystick'._hidden ]_vars

\* The state the reset routine leaves, as the spec lists it.
IsReset(j) ==
    /\ ~j.is_pressed
    /\ j.output = ZeroOutput
    /\ j._touch_index = NoFinger
    /\ j._base_center = j._base_default_center
    /\ j._tip_center = j._base_default_center
    /\ j._hidden

\* C4: a touch-up carrying the tracked identifier while Active resets the
\* joystick to Idle; a touch-up carrying any other identifier changes nothing.
C4_TouchUp ==
    [][ e'.type = "SDL_FINGERUP" =>
          IF ~joystick._hidden /\ e'.fingerId = ToSint64(joystick._touch_index)
          THEN /\ IsReset(joystick')
               /\ joystick'._tip_color_mod = joystick._default_tip_color
               /\ joystick'._base_default_center = joystick._base_default_center
          ELSE joystick' = joystick ]_vars

\* C4 witness: a touch-up has been handled and left the joystick hidden with
\* the tip colour of a reset.
C4_Witness ==
    /\ e.type = "SDL_FINGERUP"
    /\ e.fingerId = ToSint64(0)
    /\ IsReset(joystick)
    /\ joystick._tip_color_mod = joystick._default_tip_color

\* C5: while hidden, a touch-move, a touch-up and an event that is no touch
\* event change nothing of the joystick.
C5_IdleIgnoresEvents ==
    [][ (joystick._hidden /\ e'.type \in {"SDL_FINGERMOTION", "SDL_FINGERUP", "SDL_KEYDOWN"})
          => joystick' = joystick ]_vars

\* C5 witness: a touch-move inside the area has been handled and the
\* joystick is hidden.
C5_Witness ==
    /\ e.type = "SDL_FINGERMOTION"
    /\ joystick._hidden
    /\ InAreaRectangle(joystick, TouchPos(joystick, e))

\* C6: while not hidden, a touch-move of the tracked finger leaves the state
\* of the update routine run with the new position, still Active with the
\* same identifier; a touch-move of another finger changes nothing.
C6_Motion ==
    [][ (e'.type = "SDL_FINGERMOTION" /\ ~joystick._hidden) =>
          IF e'.fingerId = ToSint64(joystick._touch_index)
          THEN /\ joystick' = _update_joystick_logic(joystick, TouchPos(joystick, e'))
               /\ ~joystick'._hidden
               /\ joystick'._touch_index = joystick._touch_index
          ELSE joystick' = joystick ]_vars

\* C6 witness: a touch-move of the tracked finger has put the tip at the
\* touch, away from the base.
C6_Witness ==
    /\ e.type = "SDL_FINGERMOTION"
    /\ Active(joystick)
    /\ e.fingerId = ToSint64(joystick._touch_index)
    /\ joystick._tip_center = TouchPos(joystick, e)
    /\ joystick._tip_center # joystick._base_center
    /\ joystick.is_pressed

C7_Inside ==
    /\ joystick.is_pressed
    /\ joystick.output.x # 0
    /\ joystick.output.y # 0
    /\ WideLeq(SumOfSquares(Up28(joystick.output.x), Up28(joystick.output.y)),
               Square(2^28 - 1))

\* The tip is within the clamp radius of the base, exactly.
TipWithinClampzone(j) ==
    WithinDistance(j._tip_center, j._base_center, j.clampzone_size, 0)

\* The tip is within the clamp radius of the base up to 2^-13 pixel.
TipNearClampzone(j) ==
    WithinDistance(j._tip_center, j._base_center, j.clampzone_size, 64)

\* The update routine runs: an activating touch-down, or a touch-move of the
\* tracked finger while the joystick is shown.
UpdateRuns(j, event) ==
    \/ /\ event.type = "SDL_FINGERDOWN"
       /\ ActivationGate(j, TouchPos(j, event))
    \/ /\ event.type = "SDL_FINGERMOTION"
       /\ ~j._hidden
       /\ event.fingerId = ToSint64(j._touch_index)

\* C8 as claimed: in every reachable state the distance between the tip and
\* the base center is at most clampzone_size.
C8_TipWithinClampzone == TipWithinClampzone(joystick)

\* C8 amended: the tip is within clampzone_size of the base after creation;
\* every update puts it within clampzone_size + 2^-13 pixel of the base; and
\* it stays that near over every step that does not lower clampzone_size.
C8_TipWithinClampzoneUnlessLowered ==
    /\ TipWithinClampzone(joystick)
    /\ [][ (\/ UpdateRuns(joystick, e')
            \/ /\ TipNearClampzone(joystick)
               /\ joystick'.clampzone_size >= joystick.clampzone_size)
           => TipNearClampzone(joystick') ]_vars

\* C8 witness: an update has clamped the tip, which is farther from the base
\* than clampzone_size, and within 2^-13 pixel of it.
C8_Witness ==
    /\ e.type = "SDL_FINGERMOTION"
    /\ joystick.is_pressed
    /\ joystick._tip_center # TouchPos(joystick, e)
    /\ ~TipWithinClampzone(joystick)
    /\ TipNearClampzone(joystick)

\* C8 lowered: the owner has lowered clampzone_size below the distance of
\* the tip, which no rounding explains.
C8_Lowered ==
    /\ e.type = "SDL_USEREVENT"
    /\ ~WithinDistance(joystick._tip_center, joystick._base_center,
                       joystick.clampzone_size, 2^19)

C10_FixedBaseStays ==
    /\ joystick._base_center = joystick._base_default_center
    /\ [][ /\ joystick'._base_center = joystick'._base_default_center
           /\ ( /\ e'.type = "SDL_FINGERDOWN"
                /\ joystick._hidden
                /\ InAreaRectangle(joystick, TouchPos(joystick, e'))
                /\ ~InBaseCircle(joystick, TouchPos(joystick, e')) )
              => (joystick'._hidden /\ ~Tracked(joystick')) ]_vars

\* C10 witness: a touch-down inside the area and outside the base circle has
\* been handled by a hidden FIXED joystick.
C10_Witness ==
    /\ joystick.joystick_mode = "JOYSTICK_MODE_FIXED"
    /\ e.type = "SDL_FINGERDOWN"
    /\ joystick._hidden
    /\ InAreaRectangle(joystick, TouchPos(joystick, e))
    /\ ~InBaseCircle(joystick, TouchPos(joystick, e))

\* C10 active: a FIXED joystick is shown and pressed with its base at the
\* default center.
C10_Active ==
    /\ joystick.joystick_mode = "JOYSTICK_MODE_FIXED"
    /\ Active(joystick)
    /\ joystick.is_pressed
    /\ joystick._base_center = joystick._base_default_center

\* The configuration of the scenario of C11: DYNAMIC mode, the area
\* (0,0,200,600), clamp zone 75, dead zone 10.
ScenarioConfiguration(j) ==
    /\ j.joystick_mode = "JOYSTICK_MODE_DYNAMIC"
    /\ j.joystick_area = [x |-> 0, y |-> 0, w |-> 200, h |-> 600]
    /\ j.clampzone_size = F(75)
    /\ j.deadzone_size = F(10)

Point(x, y) == [x |-> F(x), y |-> F(y)]

\* C11: in DYNAMIC mode a touch-down at p inside the area of an idle
\* joystick puts the base at p and shows the joystick; a touch-move of the
\* tracked finger leaves the base there and gives the output of the update
\* routine for the new position, which in the scenario (base (50,50), touch
\* (50,100)) is (0, 40/65), the quotient being the float division; the
\* touch-up of the tracked finger hides the joystick with output (0,0) and
\* the base at the center of the area.
C11_DynamicScenario ==
    [][ joystick.joystick_mode = "JOYSTICK_MODE_DYNAMIC" =>
          LET p == TouchPos(joystick, e')
          IN  /\ ( /\ e'.type = "SDL_FINGERDOWN"
                   /\ Idle(joystick)
                   /\ InAreaRectangle(joystick, p) )
                 => /\ joystick'._base_center = p
                    /\ ~joystick'._hidden
              /\ ( /\ e'.type = "SDL_FINGERMOTION"
                   /\ ~joystick._hidden
                   /\ e'.fingerId = ToSint64(joystick._touch_index) )
                 => /\ joystick'._base_center = joystick._base_center
                    /\ joystick'.output = _update_joystick_logic(joystick, p).output
                    /\ ( /\ ScenarioConfiguration(joystick)
                         /\ joystick._base_center = Point(50, 50)
                         /\ p = Point(50, 100) )
                       => /\ joystick'.output = [x |-> 0, y |-> FloatDiv(F(40), F(65))]
                          /\ joystick'._tip_center = Point(50, 100)
                          /\ joystick'.is_pressed
              /\ ( /\ e'.type = "SDL_FINGERUP"
                   /\ ~joystick._hidden
                   /\ e'.fingerId = ToSint64(joystick._touch_index) )
                 => /\ joystick'._hidden
                    /\ joystick'.output = ZeroOutput
                    /\ joystick'._base_center = AreaCenter(joystick.joystick_area) ]_vars

\* C11 witness: the scenario after its touch-move: base at (50,50), tip at
\* (50,100), output (0, 40/65).
C11_Witness ==
    /\ ScenarioConfiguration(joystick)
    /\ e.type = "SDL_FINGERMOTION"
    /\ Active(joystick)
    /\ joystick._base_center = Point(50, 50)
    /\ joystick._tip_center = Point(50, 100)
    /\ joystick.is_pressed
    /\ joystick.output = [x |-> 0, y |-> FloatDiv(F(40), F(65))]

\* The offset of a touch from the base center, as the float subtraction
\* gives it.
TouchOffset(j, p) ==
    [x |-> FloatSub(p.x, j._base_center.x), y |-> FloatSub(p.y, j._base_center.y)]

\* Two floats differ by at most 2^-k.
Near(a, b, k) == Abs(FloatSub(a, b)) <= TwoToMinus(k)

\* The magnitude of the output is 1: not above it with the components cut,
\* not below it with the components rounded up.
UnitMagnitude(o) ==
    /\ WideLeq(SumOfSquares(Down28(o.x), Down28(o.y)), Square(2^28))
    /\ WideLeq(Square(2^28), SumOfSquares(Up28(o.x), Up28(o.y)))

\* The magnitude of the output is between 1 - 2^-22 and 1 + 2^-22.
NearUnitMagnitude(o) ==
    /\ WideLeq(SumOfSquares(Up28(o.x), Up28(o.y)), Square(2^28 + 2^6))
    /\ WideLeq(Square(2^28 - 2^6), SumOfSquares(Down28(o.x), Down28(o.y)))

C12_AtClampzone ==
    /\ e.type = "SDL_FINGERMOTION"
    /\ Active(joystick)
    /\ joystick.joystick_mode = "JOYSTICK_MODE_DYNAMIC"
    /\ ~WithinDistance(TouchPos(joystick, e), joystick._base_center, joystick.clampzone_size, 0)
    /\ joystick.output.x # 0
    /\ joystick.output.y # 0
    /\ Vector2_Length(joystick.output) = F(1)

\* C13: after the update routine has run for a touch whose distance from the
\* base center is at most deadzone_size, the joystick is not pressed and the
\* output is (0,0), in every mode.
C13_DeadZone ==
    [][ UpdateRuns(joystick, e') =>
          LET p == TouchPos(joystick, e')
          IN  /\ WithinDistance(p, joystick'._base_center, joystick'.deadzone_size, 0)
                 => /\ ~joystick'.is_pressed
                    /\ joystick'.output = ZeroOutput
              /\ ( /\ e'.type = "SDL_FINGERMOTION"
                   /\ WithinDistance(p, joystick._base_center, joystick.deadzone_size, 0) )
                 => /\ ~joystick'.is_pressed
                    /\ joystick'.output = ZeroOutput ]_vars

\* C13 witness: a touch-move of the tracked finger to a point exactly
\* deadzone_size from the base, smaller than the clamp zone, has left the
\* joystick not pressed, with the tip at the touch.
C13_Witness ==
    /\ e.type = "SDL_FINGERMOTION"
    /\ Active(joystick)
    /\ e.fingerId = ToSint64(joystick._touch_index)
    /\ joystick._tip_center = TouchPos(joystick, e)
    /\ joystick.deadzone_size < joystick.clampzone_size
    /\ WithinDistance(joystick._tip_center, joystick._base_center, joystick.deadzone_size, 0)
    /\ ~WithinDistance(joystick._tip_center, joystick._base_center, joystick.deadzone_size, -1)
    /\ ~joystick.is_pressed
    /\ joystick.output = ZeroOutput

\* The joystick as the handler passes it to the update routine: an
\* activating touch-down has moved the base to the touch unless the mode is
\* FIXED.
AtUpdate(j, event) ==
    IF event.type = "SDL_FINGERDOWN" /\ j.joystick_mode # "JOYSTICK_MODE_FIXED"
    THEN [j EXCEPT !._base_center = TouchPos(j, event)]
    ELSE j

Misconfigured(j) == j.deadzone_size >= j.clampzone_size

\* C14 as claimed: with deadzone_size >= clampzone_size the output is (0,0)
\* in every state, and a run of the update routine divides by no zero.
C14_MisconfiguredOutputZero ==
    [][ Misconfigured(joystick') =>
          /\ joystick'.output = ZeroOutput
          /\ UpdateRuns(joystick, e')
             => 0 \notin UpdateDivisors(AtUpdate(joystick, e'), TouchPos(joystick, e')) ]_vars

\* C14 where it fails: with a negative clampzone_size a touch-down at the
\* base center has divided 0 by 0 in Vector2_LimitLength and left the tip at
\* NaN.
C14_ZeroByZero ==
    /\ e.type = "SDL_FINGERDOWN"
    /\ Active(joystick)
    /\ Misconfigured(joystick)
    /\ joystick.clampzone_size < 0
    /\ joystick._base_center = TouchPos(joystick, e)
    /\ IsNaN(joystick._tip_center.x)
    /\ IsNaN(joystick._tip_center.y)
    /\ joystick.output = ZeroOutput

\* With a clamp zone that is not negative the misconfigured joystick of
\* main has output (0,0) in every state, and no update divides by zero.
C14_NonNegativeClampzone ==
    [][ ( /\ Misconfigured(joystick')
          /\ joystick'.clampzone_size >= 0 ) =>
          /\ joystick'.output = ZeroOutput
          /\ UpdateRuns(joystick, e')
             => 0 \notin UpdateDivisors(AtUpdate(joystick, e'), TouchPos(joystick, e')) ]_vars

\* C14 with an owner that writes between events: the owner has written a
\* dead zone as large as the clamp zone, and the output of the last update
\* is still there.
C14_Stale ==
    /\ e.type = "SDL_USEREVENT"
    /\ Misconfigured(joystick)
    /\ joystick.clampzone_size >= 0
    /\ joystick.output # ZeroOutput

\* The distance of p and q is r up to slack * 2^-19.
AtDistance(p, q, r, slack) ==
    /\ WithinDistance(p, q, r, slack)
    /\ ~WithinDistance(p, q, r, -slack - 1)

C15_Diagonal ==
    /\ e.type = "SDL_FINGERMOTION"
    /\ Active(joystick)
    /\ joystick.joystick_mode = "JOYSTICK_MODE_FOLLOWING"
    /\ joystick.clampzone_size = F(75)
    /\ TouchPos(joystick, e) = Point(140, 170)
    /\ joystick._base_center # Point(50, 50)
    /\ ~AtDistance(joystick._tip_center, joystick._base_center, joystick.clampzone_size, 0)
    /\ AtDistance(joystick._tip_center, joystick._base_center, joystick.clampzone_size, 64)


\* C15 at the clamp zone: FOLLOWING mode, clamp zone 75, touch-down at
\* (200,50) and touch-move to (275,50), exactly 75 px away: the base has not
\* moved, the tip is at the touch, the output (1,0).
C15_AtClampzone ==
    /\ e.type = "SDL_FINGERMOTION"
    /\ Active(joystick)
    /\ joystick.joystick_mode = "JOYSTICK_MODE_FOLLOWING"
    /\ joystick.clampzone_size = F(75)
    /\ joystick.deadzone_size = F(10)
    /\ TouchPos(joystick, e) = Point(275, 50)
    /\ joystick._base_center = Point(200, 50)
    /\ joystick._tip_center = Point(275, 50)
    /\ joystick.output = [x |-> F(1), y |-> 0]
    /\ moves = 0

\* C16: in DYNAMIC and FIXED mode, between activation and the next reset (the
\* joystick is shown), no touch-move, of the tracked finger or of another,
\* and no further touch-down changes the base center.
C16_BaseStaysAfterActivation ==
    [][ ( /\ joystick.joystick_mode \in {"JOYSTICK_MODE_DYNAMIC", "JOYSTICK_MODE_FIXED"}
          /\ ~joystick._hidden
          /\ e'.type \in {"SDL_FINGERMOTION", "SDL_FINGERDOWN"} )
        => joystick'._base_center = joystick._base_center ]_vars

\* The part of C16 that holds: the same while the stored identifier is not
\* the sentinel.
C16_BaseStaysWhileTracked ==
    [][ ( /\ joystick.joystick_mode \in {"JOYSTICK_MODE_DYNAMIC", "JOYSTICK_MODE_FIXED"}
          /\ Active(joystick)
          /\ e'.type \in {"SDL_FINGERMOTION", "SDL_FINGERDOWN"} )
        => joystick'._base_center = joystick._base_center ]_vars


\* C17: an Active joystick stays Active, with the same tracked identifier,
\* through every event but the touch-up of the tracked finger: touch-moves
\* (also to positions outside the area), touch-downs, touch-ups of other
\* fingers, and window-size updates through the setter.
C17_LeavesActiveOnlyByTouchUp ==
    [][ ( /\ Active(joystick)
          /\ ~(e'.type = "SDL_FINGERUP" /\ e'.fingerId = ToSint64(joystick._touch_index)) )
        => /\ ~joystick'._hidden
           /\ joystick'._touch_index = joystick._touch_index ]_vars

\* C17 witness: the window size has been updated through the setter while a
\* finger is tracked, and the joystick is still Active and pressed.
C17_Witness ==
    /\ e.type = "SDL_WINDOWEVENT"
    /\ Active(joystick)
    /\ joystick.is_pressed
    /\ joystick._window_width # InitialWindow[1]

\* C17 for a touch-move out of the area: the tracked finger has moved to a
\* position outside the area rectangle and the joystick is still Active.
C17_MovedOutside ==
    /\ e.type = "SDL_FINGERMOTION"
    /\ Active(joystick)
    /\ e.fingerId = ToSint64(joystick._touch_index)
    /\ ~InAreaRectangle(joystick, TouchPos(joystick, e))

\* C17 in main's loop, where the resize branch is the owner's direct call of
\* the reset routine: every other event keeps an Active joystick Active.
C17_InMain ==
    [][ ( /\ Active(joystick)
          /\ e'.type # "SDL_WINDOWEVENT"
          /\ ~(e'.type = "SDL_FINGERUP" /\ e'.fingerId = ToSint64(joystick._touch_index)) )
        => /\ ~joystick'._hidden
           /\ joystick'._touch_index = joystick._touch_index ]_vars


\* C18: when the window size is pushed in through the setter while a finger
\* is tracked, the joystick is reset: not pressed, output (0,0), no finger
\* tracked, base and tip at the default center, hidden.
C18_SetWindowSizeResets ==
    [][ (e'.type = "SDL_WINDOWEVENT" /\ Tracked(joystick)) => IsReset(joystick') ]_vars

\* C18 in main's loop, whose resize branch calls the reset routine after the
\* setter: the joystick is reset by every resize.
C18_InMain ==
    [][ e'.type = "SDL_WINDOWEVENT" =>
          /\ IsReset(joystick')
          /\ joystick'._window_width = e'.data1
          /\ joystick'._window_height = e'.data2 ]_vars

\* What the setter does when called alone: it stores the two integers and
\* changes nothing else.
C18_SetterOnlyStores ==
    [][ e'.type = "SDL_WINDOWEVENT" =>
          joystick' = [joystick EXCEPT !._window_width = e'.data1,
                                       !._window_height = e'.data2] ]_vars


\* C19: the reset routine is idempotent: in every reachable state, resetting
\* twice gives the state that resetting once gives.
C19_ResetIdempotent ==
    _reset_joystick(_reset_joystick(joystick)) = _reset_joystick(joystick)

\* C19 witness: main's resize branch has reset the joystick for a new window
\* size, and resetting the state it left changes nothing.
C19_Witness ==
    /\ e.type = "SDL_WINDOWEVENT"
    /\ joystick._window_width # InitialWindow[1]
    /\ IsReset(joystick)
    /\ joystick._tip_color_mod = joystick._default_tip_color
    /\ _reset_joystick(joystick) = joystick

\* C19 from a state that a reset changes: the joystick is shown and pressed,
\* with the base away from its default center and the tip away from the
\* base; a second reset changes nothing more.
C19_ResetChanges ==
    /\ ~joystick._hidden
    /\ joystick.is_pressed
    /\ joystick._base_center # joystick._base_default_center
    /\ joystick._tip_center # joystick._base_center
    /\ _reset_joystick(joystick) # joystick
    /\ _reset_joystick(_reset_joystick(joystick)) = _reset_joystick(joystick)

\* C19 along a behaviour: main's resize branch resets; a resize to the size
\* the window has, taken in a state the reset has left, changes nothing.
C19_ResizeTwice ==
    [][ ( /\ e.type = "SDL_WINDOWEVENT"
          /\ e'.type = "SDL_WINDOWEVENT"
          /\ e' = e )
        => joystick' = joystick ]_vars


\* Nothing is released more often than it was acquired, and no freed memory
\* has been read.
NothingReleasedTwice(h) ==
    /\ h.free_calls <= 1
    /\ h._base_texture.destroyed <= h._base_texture.created
    /\ h._tip_texture.destroyed <= h._tip_texture.created
    /\ ~h.freed_reads

\* Everything acquired has been released once.
AllReleasedOnce(h) ==
    /\ h.block = "freed"
    /\ h.free_calls = 1
    /\ h._base_texture.destroyed = h._base_texture.created
    /\ h._tip_texture.destroyed = h._tip_texture.created

\* C20: after any number of VirtualJoystick_Destroy calls, with a null
\* pointer or with the pointer creation returned (also when it was destroyed
\* before), nothing has been released twice and no freed memory has been
\* read; after a destroy of a created joystick both textures have been
\* released exactly once.
C20_DestroySafe ==
    /\ NothingReleasedTwice(heap)
    /\ (heap.destroy_calls >= 1 /\ heap.pointer = "block") => AllReleasedOnce(heap)

\* The part of C20 that holds: the first destroy of a created joystick
\* releases both textures and the struct exactly once, and a destroy of a
\* null pointer does nothing, however often it is called.
C20_FirstDestroy ==
    (heap.destroy_calls <= 1 \/ heap.pointer = "NULL") =>
        /\ NothingReleasedTwice(heap)
        /\ (heap.destroy_calls = 1 /\ heap.pointer = "block")
           => /\ AllReleasedOnce(heap)
              /\ heap._base_texture.destroyed = 1
              /\ heap._tip_texture.destroyed = 1

\* States of C20_FirstDestroy: a created joystick destroyed once after it
\* had been Active, and a null pointer destroyed twice.
C20_DestroyedOnce ==
    /\ heap.destroy_calls = 1
    /\ heap.pointer = "block"
    /\ ~joystick._hidden
    /\ AllReleasedOnce(heap)

C20_NullDestroyed ==
    /\ heap.destroy_calls = 2
    /\ heap.pointer = "NULL"
    /\ heap.free_calls = 0


\* C21: creation returns a pointer to the struct exactly when the struct and
\* both textures were acquired; when it returns NULL, whatever was acquired
\* before the failure (the struct, one texture or none) has been released
\* exactly once, nothing is left allocated, nothing was released that was
\* never acquired, and no freed memory was read.
C21_CreateFailureCleansUp ==
    /\ heap.pointer = "block"
       => /\ heap.block # "unallocated"
          /\ heap._base_texture.created = 1
          /\ heap._tip_texture.created = 1
    /\ heap.pointer = "NULL"
       => /\ heap._base_texture.created = 0 \/ heap._tip_texture.created = 0
             \/ heap.block = "unallocated"
          /\ heap.block # "allocated"
          /\ heap.free_calls = (IF heap.block = "freed" THEN 1 ELSE 0)
          /\ heap._base_texture.destroyed = heap._base_texture.created
          /\ heap._tip_texture.destroyed = heap._tip_texture.created
          /\ heap.block = "unallocated"
             => heap._base_texture.created = 0 /\ heap._tip_texture.created = 0
          /\ ~heap.freed_reads

\* C21 witness: creation failed at the tip texture: it returned NULL, and the
\* struct and the base texture have been released once.
C21_Witness ==
    /\ heap.pointer = "NULL"
    /\ heap.destroy_calls = 0
    /\ heap.block = "freed"
    /\ heap.free_calls = 1
    /\ heap._base_texture.created = 1
    /\ heap._base_texture.destroyed = 1
    /\ heap._tip_texture.created = 0
    /\ heap._tip_texture.destroyed = 0

\* C21 at the other failures: the base texture, both textures, and malloc.
C21_BaseTextureFailed ==
    /\ heap.pointer = "NULL"
    /\ heap.block = "freed"
    /\ heap._base_texture.created = 0
    /\ heap._tip_texture.created = 1
    /\ heap._tip_texture.destroyed = 1

C21_MallocFailed ==
    /\ heap.pointer = "NULL"
    /\ heap.block = "unallocated"
    /\ heap.free_calls = 0


\* The touch-move of the same finger to the same position as an event.
SameMotion(event) == [event EXCEPT !.type = "SDL_FINGERMOTION"]

\* C22: an activating touch-down at p has already run the update with p: a
\* touch-move of the same finger to p, and the update routine itself, change
\* nothing of the state it leaves.  In DYNAMIC and FOLLOWING mode base and
\* tip are at p and, the dead zone not being negative, the joystick is not
\* pressed with output (0,0); in FIXED mode the base is where it was (at the
\* default center, for a joystick that was hidden), and tip, pressed and
\* output are those of the update for p.
C22_ImmediateUpdate ==
    [][ ( /\ e'.type = "SDL_FINGERDOWN"
          /\ ActivationGate(joystick, TouchPos(joystick, e')) ) =>
          LET p == TouchPos(joystick, e')
              u == _update_joystick_logic(joystick, p)
          IN  /\ ~joystick'._hidden
              /\ VirtualJoystick_HandleEvent(joystick', SameMotion(e')) = joystick'
              /\ _update_joystick_logic(joystick', p) = joystick'
              /\ IF joystick.joystick_mode = "JOYSTICK_MODE_FIXED"
                 THEN /\ joystick'._base_center = joystick._base_center
                      /\ joystick._hidden
                         => joystick'._base_center = joystick._base_default_center
                      /\ joystick'._tip_center = u._tip_center
                      /\ joystick'.is_pressed = u.is_pressed
                      /\ joystick'.output = u.output
                 ELSE /\ joystick'._base_center = p
                      /\ joystick'._tip_center = p
                      /\ joystick.deadzone_size >= 0
                         => /\ ~joystick'.is_pressed
                            /\ joystick'.output = ZeroOutput ]_vars

\* C22 witness: in FIXED mode a touch-down on the base, away from its
\* center, has left the joystick Active and pressed with the tip at the
\* touch and an output that is not (0,0).
C22_Witness ==
    /\ e.type = "SDL_FINGERDOWN"
    /\ joystick.joystick_mode = "JOYSTICK_MODE_FIXED"
    /\ Active(joystick)
    /\ e.fingerId = ToSint64(joystick._touch_index)
    /\ joystick._base_center = joystick._base_default_center
    /\ joystick._tip_center = TouchPos(joystick, e)
    /\ joystick._tip_center # joystick._base_center
    /\ joystick.is_pressed
    /\ joystick.output # ZeroOutput

\* C22 in FOLLOWING mode: a touch-down has left base and tip at the touch.
C22_Following ==
    /\ e.type = "SDL_FINGERDOWN"
    /\ joystick.joystick_mode = "JOYSTICK_MODE_FOLLOWING"
    /\ Active(joystick)
    /\ e.fingerId = ToSint64(joystick._touch_index)
    /\ joystick._base_center = TouchPos(joystick, e)
    /\ joystick._tip_center = TouchPos(joystick, e)
    /\ ~joystick.is_pressed


\* C23: after an activating touch-down with identifier f, for every value f
\* of an SDL_FingerID: an event carrying f matches the stored identifier, an
\* event carrying another identifier does not, and the stored identifier is
\* not the sentinel, so that a further touch-down is rejected.
C23_TracksIdentifier ==
    [][ ( /\ e'.type = "SDL_FINGERDOWN"
          /\ ActivationGate(joystick, TouchPos(joystick, e')) ) =>
          /\ e'.fingerId = ToSint64(joystick'._touch_index)
          /\ \A g \in FingerIds \ {e'.fingerId} : g # ToSint64(joystick'._touch_index)
          /\ Tracked(joystick') ]_vars

\* The identifiers an int holds and that are not the sentinel.
FitsInt(id) == id = ToSint64(ToInt(id)) /\ ToInt(id) # NoFinger

\* The part of C23 that holds: the same for the identifiers that fit an int
\* and are not -1.
C23_TracksSmallIdentifier ==
    [][ ( /\ e'.type = "SDL_FINGERDOWN"
          /\ ActivationGate(joystick, TouchPos(joystick, e'))
          /\ FitsInt(e'.fingerId) ) =>
          /\ e'.fingerId = ToSint64(joystick'._touch_index)
          /\ \A g \in FingerIds \ {e'.fingerId} : g # ToSint64(joystick'._touch_index)
          /\ Tracked(joystick') ]_vars

\* States of the defect: a finger with identifier 2^32 is down and the
\* joystick tracks identifier 0; a finger with identifier -1 is down and the
\* joystick, shown, tracks none.
C23_TracksZeroFor2Pow32 ==
    /\ e.type = "SDL_FINGERDOWN"
    /\ e.fingerId = [hi |-> 1, lo |-> 0]
    /\ ~joystick._hidden
    /\ joystick._touch_index = 0

C23_TracksNoneForMinusOne ==
    /\ e.type = "SDL_FINGERDOWN"
    /\ e.fingerId = ToSint64(-1)
    /\ ~joystick._hidden
    /\ joystick._touch_index = NoFinger

\* C24 as claimed: after every update for the tracked finger, in FOLLOWING
\* mode the tip is at the touch position, whatever the distance moved; in
\* DYNAMIC and FIXED mode the tip is at the touch position only when the
\* touch is within clampzone_size of the base.
C24_TipAtTouch ==
    [][ UpdateRuns(joystick, e') =>
          LET p == TouchPos(joystick, e')
          IN  IF joystick'.joystick_mode = "JOYSTICK_MODE_FOLLOWING"
              THEN joystick'._tip_center = p
              ELSE joystick'._tip_center = p
                   => WithinDistance(p, joystick'._base_center, joystick'.clampzone_size, 0) ]_vars

\* C24 amended: in FOLLOWING mode the tip is within 2^-13 pixel of the touch
\* position after every update; in DYNAMIC and FIXED mode the tip is at the
\* touch position only when the touch is within clampzone_size of the base,
\* up to 2^-13 pixel.
C24_TipAtTouchRounded ==
    [][ UpdateRuns(joystick, e') =>
          LET p == TouchPos(joystick, e')
          IN  IF joystick'.joystick_mode = "JOYSTICK_MODE_FOLLOWING"
              THEN WithinDistance(joystick'._tip_center, p, 0, 64)
              ELSE joystick'._tip_center = p
                   => WithinDistance(p, joystick'._base_center, joystick'.clampzone_size, 64) ]_vars

\* C24 witness: in FOLLOWING mode a touch-move has moved the base, and the
\* tip is beside the touch position, within 2^-13 pixel of it.
C24_Witness ==
    /\ e.type = "SDL_FINGERMOTION"
    /\ Active(joystick)
    /\ e.fingerId = ToSint64(joystick._touch_index)
    /\ joystick.joystick_mode = "JOYSTICK_MODE_FOLLOWING"
    /\ joystick.is_pressed
    /\ joystick._tip_center # TouchPos(joystick, e)
    /\ WithinDistance(joystick._tip_center, TouchPos(joystick, e), 0, 64)

\* C24 where the tip is at the touch: in FOLLOWING mode a touch-move has
\* moved the base off the axes and left the tip at the touch position.
C24_Following ==
    /\ e.type = "SDL_FINGERMOTION"
    /\ Active(joystick)
    /\ joystick.joystick_mode = "JOYSTICK_MODE_FOLLOWING"
    /\ joystick.is_pressed
    /\ joystick._tip_center = TouchPos(joystick, e)
    /\ joystick._base_center.x # joystick._tip_center.x
    /\ joystick._base_center.y # joystick._tip_center.y
    /\ ~WithinDistance(joystick._tip_center, joystick._base_center, joystick.clampzone_size, -64)

\* C24 with the base on whole pixels: in FOLLOWING mode with clamp zone 100
\* a touch-move from (140,170) to (50,50) has moved the base to (110,130) and
\* left the tip beside the touch position, at (49.9999962,50).
C24_WholePixelBase ==
    /\ e.type = "SDL_FINGERMOTION"
    /\ Active(joystick)
    /\ joystick.joystick_mode = "JOYSTICK_MODE_FOLLOWING"
    /\ joystick.clampzone_size = F(100)
    /\ TouchPos(joystick, e) = Point(50, 50)
    /\ joystick._base_center = Point(110, 130)
    /\ joystick._tip_center.x = F(50) - 1
    /\ joystick._tip_center.y = F(50)

\* C24 in the other modes: in DYNAMIC mode a touch-move beyond the clamp zone
\* has left the tip short of the touch position, and a touch-move within it
\* has left the tip at the touch position.
C24_Clamped ==
    /\ e.type = "SDL_FINGERMOTION"
    /\ Active(joystick)
    /\ joystick.joystick_mode = "JOYSTICK_MODE_DYNAMIC"
    /\ joystick._tip_center # TouchPos(joystick, e)
    /\ ~WithinDistance(TouchPos(joystick, e), joystick._base_center, joystick.clampzone_size, 0)

C24_Within ==
    /\ e.type = "SDL_FINGERMOTION"
    /\ Active(joystick)
    /\ joystick.joystick_mode = "JOYSTICK_MODE_DYNAMIC"
    /\ joystick._tip_center = TouchPos(joystick, e)
    /\ joystick._tip_center # joystick._base_center
    /\ WithinDistance(TouchPos(joystick, e), joystick._base_center, joystick.clampzone_size, 0)



\* The event is a touch-down that passes the activation gate of j.
GatePassed(j, event) ==
    /\ event.type = "SDL_FINGERDOWN"
    /\ ActivationGate(j, TouchPos(j, event))

\* C25: the reset main forces on a window resize leaves the joystick Idle
\* with output (0,0), whatever finger is down; from then on every touch-move
\* and every touch-up leaves the state unchanged, the joystick stays Idle
\* with output (0,0) under every event but a touch-down that passes the
\* gate, and such a touch-down shows it and stores the identifier it
\* carries, whatever that identifier is.
C25_ForcedReset ==
    [][ /\ e'.type = "SDL_WINDOWEVENT" =>
               /\ Idle(joystick')
               /\ joystick'.output = ZeroOutput
        /\ ( /\ Idle(joystick)
             /\ e'.type \in {"SDL_FINGERMOTION", "SDL_FINGERUP"} ) =>
               joystick' = joystick
        /\ ( /\ Idle(joystick)
             /\ ~GatePassed(joystick, e') ) =>
               /\ Idle(joystick')
               /\ joystick'.output = ZeroOutput
        /\ ( /\ Idle(joystick)
             /\ GatePassed(joystick, e') ) =>
               /\ ~joystick'._hidden
               /\ joystick'._touch_index = ToInt(e'.fingerId) ]_vars

\* C25 witness: a touch-move of finger 0 has been ignored by the joystick
\* that a resize reset: Idle, in the resized window, base and tip at the
\* new default center.
C25_Witness ==
    /\ e.type = "SDL_FINGERMOTION"
    /\ e.fingerId = ToSint64(0)
    /\ joystick._window_width # InitialWindow[1]
    /\ InAreaRectangle(joystick, TouchPos(joystick, e))
    /\ IsReset(joystick)

\* C25, the activation: after a resize, a touch-down of an identifier other
\* than 0 has activated the joystick.
C25_ActivatedAfterResize ==
    /\ e.type = "SDL_FINGERDOWN"
    /\ e.fingerId = [hi |-> 1, lo |-> 0]
    /\ joystick._window_width # InitialWindow[1]
    /\ Active(joystick)

\* The gate-passing touch-down leaves the joystick Active for the
\* identifiers whose int image is not -1.
C25_ActiveForTrackedIdentifier ==
    [][ ( /\ Idle(joystick)
          /\ GatePassed(joystick, e')
          /\ ToInt(e'.fingerId) # NoFinger ) => Active(joystick') ]_vars

\* With identifier -1 (C23) the touch-down after a resize leaves the
\* joystick shown and the stored identifier the sentinel.
C25_ShownUntrackedAfterResize ==
    /\ e.type = "SDL_FINGERDOWN"
    /\ e.fingerId = ToSint64(-1)
    /\ joystick._window_width # InitialWindow[1]
    /\ ~joystick._hidden
    /\ ~Tracked(joystick)

====
